---- MODULE Spec2Model ----
(***************************************************************************)
(* A model of the transaction decoder of src/main.rs: the readers over a   *)
(* shrinking byte slice (read_compact_size, read_u32, read_amout,          *)
(* read_txid, read_script) and main, which decodes version, inputs and     *)
(* outputs and builds the Transaction.                                     *)
(*                                                                         *)
(* Bytes are the integers 0..255.  TLC's integers are 32 bits wide, so an  *)
(* unsigned 16/32/64-bit value is kept as its 16-bit limbs, least          *)
(* significant limb first: a u16 is <<l1>>, a u32 is <<l1, l2>>, a u64 is  *)
(* <<l1, l2, l3, l4>> and stands for l1 + 2^16*l2 + 2^32*l3 + 2^48*l4.     *)
(* A String is the sequence of its characters.                             *)
(***************************************************************************)
EXTENDS Integers, Sequences, FiniteSets, TLC

VARIABLES
  transaction_bytes,  \* the decoded input buffer (main.rs:120), never changed
  bytes_slice,        \* the slice the readers shrink (main.rs:121)
  pc,                 \* the position in main, or in a single reader call
  version, input_count, inputs, output_count, outputs,  \* locals of main
  txid, output_index, script_sig, sequence,             \* locals of the input loop
  amount, script_pubkey,                                \* locals of the output loop
  iter,               \* iterations the current for loop has completed
  transaction,        \* the Transaction built at main.rs:145
  fn,                 \* the entry point: "main", or the reader a test calls
  ret                 \* the value the called reader returned

vars == <<transaction_bytes, bytes_slice, pc, version, input_count, inputs,
          output_count, outputs, txid, output_index, script_sig, sequence,
          amount, script_pubkey, iter, transaction, fn, ret>>

locals == <<version, input_count, inputs, output_count, outputs, txid,
            output_index, script_sig, sequence, amount, script_pubkey, iter,
            transaction>>

(***************************************************************************)
(* Bounds of the input families.                                           *)
(***************************************************************************)
MaxInputs == 2
MaxOutputs == 2
MaxTail == 2

(***************************************************************************)
(* Sequences.                                                              *)
(***************************************************************************)
Take(s, n) == SubSeq(s, 1, n)
Drop(s, n) == SubSeq(s, n + 1, Len(s))
Zeros(n) == [k \in 1..n |-> 0]
Reverse(s) == [k \in 1..Len(s) |-> s[Len(s) + 1 - k]]
Prefixes(S) == {Take(b, k) : <<b, k>> \in UNION {{b} \X (0..Len(b)) : b \in S}}

(***************************************************************************)
(* <&[u8] as std::io::Read>::read(buf): copies amt = min(buf.len(),        *)
(* self.len()) bytes to the front of buf, leaves the rest of buf as it     *)
(* was, advances the slice by amt and returns Ok(amt).  It never returns   *)
(* Err, so the unwrap() at each call never panics; every caller drops amt. *)
(***************************************************************************)
read(slice, buf) ==
  LET amt == IF Len(buf) < Len(slice) THEN Len(buf) ELSE Len(slice)
  IN  [buffer |-> Take(slice, amt) \o Drop(buf, amt),
       rest   |-> Drop(slice, amt),
       amt    |-> amt]

(***************************************************************************)
(* Integer conversions: from_le_bytes and the widening casts.              *)
(***************************************************************************)
from_le_bytes(b) == [k \in 1..(Len(b) \div 2) |-> b[2 * k - 1] + 256 * b[2 * k]]
as_u64(limbs) == limbs \o Zeros(4 - Len(limbs))
u8_as_u64(b) == <<b, 0, 0, 0>>

\* hex::encode: two lowercase digits per byte, the high nibble first.
HexDigits ==
  <<"0", "1", "2", "3", "4", "5", "6", "7", "8", "9", "a", "b", "c", "d", "e", "f">>
hex_encode(bytes) ==
  [k \in 1..(2 * Len(bytes)) |->
     IF k % 2 = 1 THEN HexDigits[(bytes[(k + 1) \div 2] \div 16) + 1]
                  ELSE HexDigits[(bytes[k \div 2] % 16) + 1]]

\* hex::decode of a string of lowercase hex digits of even length.
HexValue(c) == (CHOOSE d \in 1..16 : HexDigits[d] = c) - 1
hex_decode(chars) ==
  [k \in 1..(Len(chars) \div 2) |->
     16 * HexValue(chars[2 * k - 1]) + HexValue(chars[2 * k])]

(***************************************************************************)
(* The readers.  Each returns the value read and the slice left.           *)
(***************************************************************************)
\* read_compact_size with the 254 arm reading into a 2-byte buffer, as the 253
\* arm does.
read_compact_size_short_254(transaction_bytes_) ==
  LET r1 == read(transaction_bytes_, Zeros(1))
      compact_size == r1.buffer
  IN  IF compact_size[1] <= 252
        THEN [val |-> u8_as_u64(compact_size[1]), rest |-> r1.rest]
      ELSE IF compact_size[1] = 253 \/ compact_size[1] = 254
        THEN LET r2 == read(r1.rest, Zeros(2))
             IN  [val |-> as_u64(from_le_bytes(r2.buffer)), rest |-> r2.rest]
      ELSE LET r8 == read(r1.rest, Zeros(8))
           IN  [val |-> from_le_bytes(r8.buffer), rest |-> r8.rest]

\* read_compact_size with the 253 arm using u16::from_be_bytes.
read_compact_size_be_253(transaction_bytes_) ==
  LET r1 == read(transaction_bytes_, Zeros(1))
      compact_size == r1.buffer
  IN  IF compact_size[1] <= 252
        THEN [val |-> u8_as_u64(compact_size[1]), rest |-> r1.rest]
      ELSE IF compact_size[1] = 253
        THEN LET r2 == read(r1.rest, Zeros(2))
             IN  [val |-> as_u64(from_le_bytes(Reverse(r2.buffer))), rest |-> r2.rest]
      ELSE IF compact_size[1] = 254
        THEN LET r4 == read(r1.rest, Zeros(4))
             IN  [val |-> as_u64(from_le_bytes(r4.buffer)), rest |-> r4.rest]
      ELSE LET r8 == read(r1.rest, Zeros(8))
           IN  [val |-> from_le_bytes(r8.buffer), rest |-> r8.rest]

read_compact_size(transaction_bytes_) ==
  LET r1 == read(transaction_bytes_, Zeros(1))
      compact_size == r1.buffer
  IN  IF compact_size[1] <= 252
        THEN [val |-> u8_as_u64(compact_size[1]), rest |-> r1.rest]
      ELSE IF compact_size[1] = 253
        THEN LET r2 == read(r1.rest, Zeros(2))
             IN  [val |-> as_u64(from_le_bytes(r2.buffer)), rest |-> r2.rest]
      ELSE IF compact_size[1] = 254
        THEN LET r4 == read(r1.rest, Zeros(4))
             IN  [val |-> as_u64(from_le_bytes(r4.buffer)), rest |-> r4.rest]
      ELSE LET r8 == read(r1.rest, Zeros(8))
           IN  [val |-> from_le_bytes(r8.buffer), rest |-> r8.rest]

read_amout(transaction_bytes_) ==
  LET r == read(transaction_bytes_, Zeros(8))
  IN  [val |-> from_le_bytes(r.buffer), rest |-> r.rest]

read_u32(transaction_bytes_) ==
  LET r == read(transaction_bytes_, Zeros(4))
  IN  [val |-> from_le_bytes(r.buffer), rest |-> r.rest]

\* read_txid without buffer.reverse().
read_txid_unreversed(transaction_bytes_) ==
  LET r == read(transaction_bytes_, Zeros(32))
  IN  [val |-> hex_encode(r.buffer), rest |-> r.rest]

read_txid(transaction_bytes_) ==
  LET r == read(transaction_bytes_, Zeros(32))
  IN  [val |-> hex_encode(Reverse(r.buffer)), rest |-> r.rest]

\* `script_size as usize` on a 64-bit target keeps the value.  vec![0_u8; n]
\* panics with "capacity overflow" when n exceeds isize::MAX = 2^63 - 1, that
\* is when the top limb is 2^15 or more.
CapacityOverflow(size) == size[4] >= 32768
\* A size below 2^31 as an integer (larger sizes are outside the input families).
as_usize(size) == size[1] + 65536 * size[2]

\* read_script with the buffer made by Vec::with_capacity(script_size): its
\* length is 0, so the read copies nothing and leaves the slice where it was.
read_script_with_capacity(transaction_bytes_) ==
  LET c == read_compact_size(transaction_bytes_)
      script_size == c.val
  IN  IF CapacityOverflow(script_size)
        THEN [panic |-> TRUE, val |-> <<>>, rest |-> c.rest]
        ELSE LET r == read(c.rest, <<>>)
             IN  [panic |-> FALSE, val |-> hex_encode(r.buffer), rest |-> r.rest]

read_script(transaction_bytes_) ==
  LET c == read_compact_size(transaction_bytes_)
      script_size == c.val
  IN  IF CapacityOverflow(script_size)
        THEN [panic |-> TRUE, val |-> <<>>, rest |-> c.rest]
        ELSE LET r == read(c.rest, Zeros(as_usize(script_size)))
             IN  [panic |-> FALSE, val |-> hex_encode(r.buffer), rest |-> r.rest]


(* The hex string main decodes (main.rs:119). *)
transaction_hex ==
  <<
     "0", "1", "0", "0", "0", "0", "0", "0", "0", "1", "0", "0", "0", "0", "0", "0", "0", "0", "0", "0",
     "0", "0", "0", "0", "0", "0", "0", "0", "0", "0", "0", "0", "0", "0", "0", "0", "0", "0", "0", "0",
     "0", "0", "0", "0", "0", "0", "0", "0", "0", "0", "0", "0", "0", "0", "0", "0", "0", "0", "0", "0",
     "0", "0", "0", "0", "0", "0", "0", "0", "0", "0", "0", "0", "0", "0", "f", "f", "f", "f", "f", "f",
     "f", "f", "6", "4", "0", "3", "0", "5", "9", "d", "0", "5", "e", "4", "b", "8", "8", "3", "e", "5",
     "b", "d", "a", "9", "e", "7", "a", "5", "9", "e", "e", "4", "b", "b", "9", "9", "e", "9", "b", "1",
     "b", "c", "f", "a", "b", "e", "6", "d", "6", "d", "f", "3", "c", "5", "3", "c", "3", "d", "9", "d",
     "b", "8", "c", "2", "4", "8", "8", "1", "2", "1", "f", "2", "4", "4", "5", "e", "2", "6", "6", "5",
     "0", "8", "3", "3", "8", "7", "6", "8", "0", "8", "9", "6", "b", "4", "f", "9", "a", "6", "9", "e",
     "0", "d", "3", "f", "d", "6", "3", "3", "3", "4", "a", "c", "6", "5", "1", "0", "0", "0", "0", "0",
     "0", "0", "f", "0", "9", "f", "9", "0", "9", "f", "4", "d", "6", "9", "6", "e", "6", "5", "6", "4",
     "2", "0", "6", "2", "7", "9", "2", "0", "7", "5", "6", "e", "6", "f", "0", "0", "0", "0", "0", "0",
     "0", "0", "0", "0", "0", "0", "0", "0", "0", "0", "0", "0", "0", "0", "0", "0", "0", "0", "0", "0",
     "0", "0", "0", "0", "0", "0", "0", "0", "0", "0", "0", "0", "0", "0", "0", "0", "0", "0", "0", "0",
     "0", "0", "0", "0", "d", "0", "f", "8", "0", "1", "0", "0", "0", "1", "5", "a", "7", "d", "7", "9",
     "9", "5", "0", "0", "0", "0", "0", "0", "0", "0", "1", "9", "7", "6", "a", "9", "1", "4", "c", "8",
     "2", "5", "a", "1", "e", "c", "f", "2", "a", "6", "8", "3", "0", "c", "4", "4", "0", "1", "6", "2",
     "0", "c", "3", "a", "1", "6", "f", "1", "9", "9", "5", "0", "5", "7", "c", "2", "a", "b", "8", "8",
     "a", "c", "d", "b", "6", "3", "a", "f", "3", "4"
  >>


(***************************************************************************)
(* The input families.  main decodes one fixed string; the decoder is      *)
(* checked on that buffer, on buffers assembled from the fields of the     *)
(* wire format, on every truncation of those, and on buffers with bytes    *)
(* left over.                                                              *)
(***************************************************************************)
Tails == {[k \in 1..n |-> 7 + k] : n \in 0..MaxTail}
WithTails(S) == {b \o t : <<b, t>> \in S \X Tails}

Pattern32 == [k \in 1..32 |-> (37 * k) % 256]

\* Encodings of a small count n: the minimal one and a wider, non-minimal one.
CountEncodings(n) == {<<n>>, <<253, n, 0>>}

InputEncodings ==
  {t \o o \o s \o q :
     <<t, o, s, q>> \in {Pattern32} \X {<<255, 255, 255, 255>>}
                        \X {<<2, 118, 169>>, <<253, 1, 0, 172>>}
                        \X {<<254, 255, 255, 255>>}}
OutputEncodings ==
  {a \o s : <<a, s>> \in {<<0, 225, 245, 5, 0, 0, 0, 0>>} \X {<<0>>, <<1, 172>>}}

RECURSIVE Repeated(_, _)
\* The concatenations of n elements of S.
Repeated(S, n) ==
  IF n = 0 THEN {<<>>}
  ELSE {a \o b : <<a, b>> \in S \X Repeated(S, n - 1)}

Counted(S, max) ==
  UNION {{c \o body : <<c, body>> \in CountEncodings(n) \X Repeated(S, n)} : n \in 0..max}

\* Buffers that hold every field main reads, and nothing else.
ExactBuffers ==
  {v \o ins \o outs :
     <<v, ins, outs>> \in {<<1, 0, 0, 0>>} \X Counted(InputEncodings, MaxInputs)
                          \X Counted(OutputEncodings, MaxOutputs)}

\* An input whose script declares 2^63 bytes.
HugeScriptBuffer ==
  <<1, 0, 0, 0, 1>> \o Pattern32 \o <<0, 0, 0, 0>> \o <<255, 0, 0, 0, 0, 0, 0, 0, 128>>

Buffers ==
  {hex_decode(transaction_hex)} \cup Prefixes({hex_decode(transaction_hex)})
    \cup Prefixes(ExactBuffers) \cup WithTails(ExactBuffers) \cup {HugeScriptBuffer}

SampleBytes == {0, 1, 252, 253, 255}
CompactSizeBuffers ==
  Prefixes(WithTails(
    {<<t>> : t \in {0, 1, 252}}
      \cup {<<253, lo, hi>> : <<lo, hi>> \in SampleBytes \X SampleBytes}
      \cup {<<254, 1, 2, 3, 4>>, <<254, 0, 0, 0, 1>>, <<254, 255, 255, 255, 255>>,
            <<255, 1, 2, 3, 4, 5, 6, 7, 8>>, <<255, 0, 0, 0, 0, 0, 0, 0, 1>>,
            <<255, 255, 255, 255, 255, 255, 255, 255, 255>>}))
U32Buffers ==
  Prefixes(WithTails({<<1, 2, 3, 4>>, <<1, 0, 0, 0>>, <<255, 255, 255, 255>>}))
AmountBuffers ==
  Prefixes(WithTails({<<0, 225, 245, 5, 0, 0, 0, 0>>, <<1, 2, 3, 4, 5, 6, 7, 8>>,
                      <<255, 255, 255, 255, 255, 255, 255, 255>>}))
TxidBuffers == Prefixes(WithTails({Pattern32, Zeros(32)}))
ScriptBuffers ==
  Prefixes(WithTails({<<0>>, <<2, 118, 169>>, <<253, 3, 0, 1, 2, 3>>,
                      <<254, 1, 0, 0, 0, 172>>, <<255, 2, 0, 0, 0, 0, 0, 0, 0, 9, 8>>,
                      <<255, 0, 0, 0, 0, 0, 0, 0, 128>>}))
    \cup {<<255, 255, 255, 255, 255, 255, 255, 255, 255>>}

TestBuffers(f) ==
  CASE f = "read_compact_size" -> CompactSizeBuffers
    [] f = "read_u32" -> U32Buffers
    [] f = "read_amout" -> AmountBuffers
    [] f = "read_txid" -> TxidBuffers
    [] f = "read_script" -> ScriptBuffers

Readers == {"read_compact_size", "read_u32", "read_amout", "read_txid", "read_script"}

(***************************************************************************)
(* main.                                                                   *)
(***************************************************************************)
NoLocals ==
  /\ version = <<>> /\ input_count = <<>> /\ inputs = <<>>
  /\ output_count = <<>> /\ outputs = <<>>
  /\ txid = <<>> /\ output_index = <<>> /\ script_sig = <<>> /\ sequence = <<>>
  /\ amount = <<>> /\ script_pubkey = <<>>
  /\ iter = 0 /\ transaction = <<>>

Init ==
  /\ transaction_bytes \in Buffers
  /\ bytes_slice = transaction_bytes
  /\ pc = "read_version"
  /\ fn = "main"
  /\ ret = <<>>
  /\ NoLocals

\* `for _ in 0..end`: whether the range yields another item after n items.
RangeHasNext(n, end) ==
  \/ end[3] > 0 \/ end[4] > 0 \/ end[2] >= 32768
  \/ n < end[1] + 65536 * end[2]

\* let version = read_u32(&mut bytes_slice);
ReadVersion ==
  /\ pc = "read_version"
  /\ LET r == read_u32(bytes_slice)
     IN  /\ version' = r.val
         /\ bytes_slice' = r.rest
  /\ pc' = "read_input_count"
  /\ UNCHANGED <<transaction_bytes, input_count, inputs, output_count, outputs, txid,
                 output_index, script_sig, sequence, amount, script_pubkey, iter,
                 transaction, fn, ret>>

\* let input_count = read_compact_size(&mut bytes_slice); let mut inputs = vec![];
ReadInputCount ==
  /\ pc = "read_input_count"
  /\ LET r == read_compact_size(bytes_slice)
     IN  /\ input_count' = r.val
         /\ bytes_slice' = r.rest
  /\ inputs' = <<>>
  /\ iter' = 0
  /\ pc' = "input_loop"
  /\ UNCHANGED <<transaction_bytes, version, output_count, outputs, txid, output_index,
                 script_sig, sequence, amount, script_pubkey, transaction, fn, ret>>

\* for _ in 0..input_count
InputLoop ==
  /\ pc = "input_loop"
  /\ pc' = IF RangeHasNext(iter, input_count) THEN "read_txid" ELSE "read_output_count"
  /\ UNCHANGED <<transaction_bytes, bytes_slice, fn, ret>>
  /\ UNCHANGED locals

\* let txid = read_txid(&mut bytes_slice);
ReadTxid ==
  /\ pc = "read_txid"
  /\ LET r == read_txid(bytes_slice)
     IN  /\ txid' = r.val
         /\ bytes_slice' = r.rest
  /\ pc' = "read_output_index"
  /\ UNCHANGED <<transaction_bytes, version, input_count, inputs, output_count, outputs,
                 output_index, script_sig, sequence, amount, script_pubkey, iter,
                 transaction, fn, ret>>

\* let output_index = read_u32(&mut bytes_slice);
ReadOutputIndex ==
  /\ pc = "read_output_index"
  /\ LET r == read_u32(bytes_slice)
     IN  /\ output_index' = r.val
         /\ bytes_slice' = r.rest
  /\ pc' = "read_script_sig"
  /\ UNCHANGED <<transaction_bytes, version, input_count, inputs, output_count, outputs,
                 txid, script_sig, sequence, amount, script_pubkey, iter, transaction,
                 fn, ret>>

\* let script_sig = read_script(&mut bytes_slice);
ReadScriptSig ==
  /\ pc = "read_script_sig"
  /\ LET r == read_script(bytes_slice)
     IN  /\ script_sig' = r.val
         /\ bytes_slice' = r.rest
         /\ pc' = IF r.panic THEN "panicked" ELSE "read_sequence"
  /\ UNCHANGED <<transaction_bytes, version, input_count, inputs, output_count, outputs,
                 txid, output_index, sequence, amount, script_pubkey, iter, transaction,
                 fn, ret>>

\* let sequence = read_u32(&mut bytes_slice);
ReadSequence ==
  /\ pc = "read_sequence"
  /\ LET r == read_u32(bytes_slice)
     IN  /\ sequence' = r.val
         /\ bytes_slice' = r.rest
  /\ pc' = "push_input"
  /\ UNCHANGED <<transaction_bytes, version, input_count, inputs, output_count, outputs,
                 txid, output_index, script_sig, amount, script_pubkey, iter,
                 transaction, fn, ret>>

\* let input = Input { txid, output_index, script_sig, sequence }; inputs.push(input);
PushInput ==
  /\ pc = "push_input"
  /\ inputs' = Append(inputs, [txid |-> txid, output_index |-> output_index,
                               script_sig |-> script_sig, sequence |-> sequence])
  /\ iter' = iter + 1
  /\ pc' = "input_loop"
  /\ UNCHANGED <<transaction_bytes, bytes_slice, version, input_count, output_count,
                 outputs, txid, output_index, script_sig, sequence, amount,
                 script_pubkey, transaction, fn, ret>>

\* ReadOutputCount reading from a fresh slice of the whole buffer
\* (transaction_bytes.as_slice() taken again before the outputs).
ReadOutputCountFromStart ==
  /\ pc = "read_output_count"
  /\ LET r == read_compact_size(transaction_bytes)
     IN  /\ output_count' = r.val
         /\ bytes_slice' = r.rest
  /\ outputs' = <<>>
  /\ iter' = 0
  /\ pc' = "output_loop"
  /\ UNCHANGED <<transaction_bytes, version, input_count, inputs, txid, output_index,
                 script_sig, sequence, amount, script_pubkey, transaction, fn, ret>>

\* let output_count = read_compact_size(&mut bytes_slice); let mut outputs = vec![];
ReadOutputCount ==
  /\ pc = "read_output_count"
  /\ LET r == read_compact_size(bytes_slice)
     IN  /\ output_count' = r.val
         /\ bytes_slice' = r.rest
  /\ outputs' = <<>>
  /\ iter' = 0
  /\ pc' = "output_loop"
  /\ UNCHANGED <<transaction_bytes, version, input_count, inputs, txid, output_index,
                 script_sig, sequence, amount, script_pubkey, transaction, fn, ret>>

\* for _ in 0..output_count
OutputLoop ==
  /\ pc = "output_loop"
  /\ pc' = IF RangeHasNext(iter, output_count) THEN "read_amount" ELSE "build"
  /\ UNCHANGED <<transaction_bytes, bytes_slice, fn, ret>>
  /\ UNCHANGED locals

\* let amount = read_amout(&mut bytes_slice);
ReadAmount ==
  /\ pc = "read_amount"
  /\ LET r == read_amout(bytes_slice)
     IN  /\ amount' = r.val
         /\ bytes_slice' = r.rest
  /\ pc' = "read_script_pubkey"
  /\ UNCHANGED <<transaction_bytes, version, input_count, inputs, output_count, outputs,
                 txid, output_index, script_sig, sequence, script_pubkey, iter,
                 transaction, fn, ret>>

\* let script_pubkey = read_script(&mut bytes_slice);
ReadScriptPubkey ==
  /\ pc = "read_script_pubkey"
  /\ LET r == read_script(bytes_slice)
     IN  /\ script_pubkey' = r.val
         /\ bytes_slice' = r.rest
         /\ pc' = IF r.panic THEN "panicked" ELSE "push_output"
  /\ UNCHANGED <<transaction_bytes, version, input_count, inputs, output_count, outputs,
                 txid, output_index, script_sig, sequence, amount, iter, transaction,
                 fn, ret>>

\* outputs.push(Output { amount, script_pubkey });
PushOutput ==
  /\ pc = "push_output"
  /\ outputs' = Append(outputs, [amount |-> amount, script_pubkey |-> script_pubkey])
  /\ iter' = iter + 1
  /\ pc' = "output_loop"
  /\ UNCHANGED <<transaction_bytes, bytes_slice, version, input_count, inputs,
                 output_count, txid, output_index, script_sig, sequence, amount,
                 script_pubkey, transaction, fn, ret>>

\* let transaction = Transaction { version, inputs, outputs }; and its printing
BuildTransaction ==
  /\ pc = "build"
  /\ transaction' = [version |-> version, inputs |-> inputs, outputs |-> outputs]
  /\ pc' = "done"
  /\ UNCHANGED <<transaction_bytes, bytes_slice, version, input_count, inputs,
                 output_count, outputs, txid, output_index, script_sig, sequence,
                 amount, script_pubkey, iter, fn, ret>>

Next ==
  \/ ReadVersion \/ ReadInputCount \/ InputLoop
  \/ ReadTxid \/ ReadOutputIndex \/ ReadScriptSig \/ ReadSequence \/ PushInput
  \/ ReadOutputCount \/ OutputLoop
  \/ ReadAmount \/ ReadScriptPubkey \/ PushOutput
  \/ BuildTransaction

Spec == Init /\ [][Next]_vars

(***************************************************************************)
(* One call of one reader on a buffer, as the test module calls them.      *)
(***************************************************************************)
InitCall ==
  /\ fn \in Readers
  /\ transaction_bytes \in TestBuffers(fn)
  /\ bytes_slice = transaction_bytes
  /\ pc = "call"
  /\ ret = <<>>
  /\ NoLocals

Return(r) ==
  /\ ret' = r.val
  /\ bytes_slice' = r.rest
  /\ pc' = "returned"
  /\ UNCHANGED <<transaction_bytes, fn>>
  /\ UNCHANGED locals

CallReadCompactSize ==
  /\ pc = "call" /\ fn = "read_compact_size"
  /\ Return(read_compact_size(bytes_slice))

CallReadU32 ==
  /\ pc = "call" /\ fn = "read_u32"
  /\ Return(read_u32(bytes_slice))

CallReadAmout ==
  /\ pc = "call" /\ fn = "read_amout"
  /\ Return(read_amout(bytes_slice))

CallReadTxid ==
  /\ pc = "call" /\ fn = "read_txid"
  /\ Return(read_txid(bytes_slice))

CallReadScript ==
  /\ pc = "call" /\ fn = "read_script"
  /\ LET r == read_script(bytes_slice)
     IN  /\ ret' = r.val
         /\ bytes_slice' = r.rest
         /\ pc' = IF r.panic THEN "panicked" ELSE "returned"
  /\ UNCHANGED <<transaction_bytes, fn>>
  /\ UNCHANGED locals

NextCall ==
  \/ CallReadCompactSize \/ CallReadU32 \/ CallReadAmout \/ CallReadTxid
  \/ CallReadScript

SpecCall == InitCall /\ [][NextCall]_vars

(***************************************************************************)
(* main as a function of the buffer: the Transaction it builds, or a       *)
(* panic.  It is the composition of the steps above.                       *)
(***************************************************************************)
RECURSIVE decode_inputs(_, _, _, _)
decode_inputs(slice, count, n, acc) ==
  IF ~RangeHasNext(n, count)
    THEN [panic |-> FALSE, items |-> acc, rest |-> slice]
    ELSE LET t == read_txid(slice)
             o == read_u32(t.rest)
             s == read_script(o.rest)
             q == read_u32(s.rest)
         IN  IF s.panic
               THEN [panic |-> TRUE, items |-> acc, rest |-> s.rest]
               ELSE decode_inputs(q.rest, count, n + 1,
                                  Append(acc, [txid |-> t.val, output_index |-> o.val,
                                               script_sig |-> s.val, sequence |-> q.val]))

RECURSIVE decode_outputs(_, _, _, _)
decode_outputs(slice, count, n, acc) ==
  IF ~RangeHasNext(n, count)
    THEN [panic |-> FALSE, items |-> acc, rest |-> slice]
    ELSE LET a == read_amout(slice)
             s == read_script(a.rest)
         IN  IF s.panic
               THEN [panic |-> TRUE, items |-> acc, rest |-> s.rest]
               ELSE decode_outputs(s.rest, count, n + 1,
                                   Append(acc, [amount |-> a.val, script_pubkey |-> s.val]))

decode(bytes) ==
  LET v == read_u32(bytes)
      ic == read_compact_size(v.rest)
      ins == decode_inputs(ic.rest, ic.val, 0, <<>>)
      oc == read_compact_size(ins.rest)
      outs == decode_outputs(oc.rest, oc.val, 0, <<>>)
  IN  IF ins.panic THEN [panic |-> TRUE, transaction |-> <<>>, rest |-> ins.rest]
      ELSE IF outs.panic THEN [panic |-> TRUE, transaction |-> <<>>, rest |-> outs.rest]
      ELSE [panic |-> FALSE,
            transaction |-> [version |-> v.val, inputs |-> ins.items,
                             outputs |-> outs.items],
            rest |-> outs.rest]

\* The steps of main and decode agree on every buffer.
DecodeAgrees ==
  /\ pc = "done" =>
       LET d == decode(transaction_bytes)
       IN  ~d.panic /\ d.transaction = transaction /\ d.rest = bytes_slice
  /\ (fn = "main" /\ pc = "panicked") => decode(transaction_bytes).panic

(***************************************************************************)
(* Properties.                                                             *)
(***************************************************************************)
\* The read offset: the bytes of the buffer the readers have consumed.
Offset == Len(transaction_bytes) - Len(bytes_slice)

\* The width of the compact-size encoding that starts a slice, by its tag.
CompactWidth(slice) ==
  IF slice = <<>> THEN 1
  ELSE IF slice[1] <= 252 THEN 1
  ELSE IF slice[1] = 253 THEN 3
  ELSE IF slice[1] = 254 THEN 5
  ELSE 9

\* A complete compact-size encoding starts the slice and its value is below 2^31.
CompactSmall(slice) ==
  /\ Len(slice) >= CompactWidth(slice)
  /\ slice[1] >= 254 => slice[5] < 128
  /\ slice[1] = 255 => \A k \in 6..9 : slice[k] = 0

\* The value of such an encoding, as an integer.
CompactValue(slice) ==
  IF slice[1] <= 252 THEN slice[1]
  ELSE IF slice[1] = 253 THEN slice[2] + 256 * slice[3]
  ELSE slice[2] + 256 * slice[3] + 65536 * slice[4] + 16777216 * slice[5]

\* The slice starts with a length prefix and holds all the bytes it declares.
ScriptComplete(slice) ==
  /\ CompactSmall(slice)
  /\ Len(slice) >= CompactWidth(slice) + CompactValue(slice)

\* The two hex digits of a byte.
HexPair(b) == <<HexDigits[(b \div 16) + 1], HexDigits[(b % 16) + 1]>>

\* The slice ends before the field read at position p is complete.
EndsBeforeField(p, slice) ==
  CASE p \in {"read_version", "read_output_index", "read_sequence"} -> Len(slice) < 4
    [] p = "read_txid" -> Len(slice) < 32
    [] p = "read_amount" -> Len(slice) < 8
    [] p \in {"read_input_count", "read_output_count"} -> Len(slice) < CompactWidth(slice)
    [] p \in {"read_script_sig", "read_script_pubkey"} -> ~ScriptComplete(slice)
    [] OTHER -> FALSE

\* C1: when the buffer ends before the field about to be read is complete,
\* decoding ends in an InsufficientData failure: the step neither panics nor
\* goes on to build a Transaction from the bytes it has.
C1_TruncatedBufferFails ==
  [][EndsBeforeField(pc, bytes_slice) => pc' = "InsufficientData"]_vars

\* The bytes one call of reader f needs at the front of a buffer (0: more
\* than any buffer of the families holds).
BytesNeeded(f, buffer) ==
  CASE f = "read_u32" -> 4
    [] f = "read_amout" -> 8
    [] f = "read_txid" -> 32
    [] f = "read_compact_size" -> CompactWidth(buffer)
    [] f = "read_script" ->
         IF Len(buffer) < CompactWidth(buffer) THEN CompactWidth(buffer)
         ELSE IF CompactSmall(buffer) THEN CompactWidth(buffer) + CompactValue(buffer)
         ELSE 0

\* C2: a reader returns a value only when every read it made was satisfied:
\* the buffer held all n bytes and the offset advanced by exactly n.  With
\* fewer than n bytes the read fails (UnexpectedEof) and nothing is returned,
\* so no value is ever built from missing bytes filled with zeros.
C2_ReadIsExactOrFails ==
  pc = "returned" =>
    /\ BytesNeeded(fn, transaction_bytes) > 0
    /\ Len(transaction_bytes) >= BytesNeeded(fn, transaction_bytes)
    /\ Offset = BytesNeeded(fn, transaction_bytes)

\* C3: after the last output the decoder reads 4 more bytes as a
\* little-endian u32 lock time, and the Transaction carries it as lock_time.
C3_LockTimeIsRead ==
  [][(pc = "build" /\ Len(bytes_slice) >= 4) =>
       /\ "lock_time" \in DOMAIN transaction'
       /\ transaction'.lock_time = from_le_bytes(Take(bytes_slice, 4))
       /\ bytes_slice' = Drop(bytes_slice, 4)]_vars

\* C4: every decoded Transaction carries a transaction identifier (the
\* reversed double hash of the whole raw buffer).
C4_TransactionCarriesIdentifier ==
  pc = "done" => "transaction_id" \in DOMAIN transaction

\* C5: read_compact_size returns the first byte b itself for b in 0..252,
\* consuming 1 byte; for tag 254 the little-endian u32 of the next 4 bytes,
\* consuming 5; for tag 255 the little-endian u64 of the next 8 bytes,
\* consuming 9; the slice left starts right after the encoding.
C5_CompactSizeDecodes ==
  (pc = "returned" /\ fn = "read_compact_size" /\ transaction_bytes # <<>>) =>
    LET b == transaction_bytes
    IN  /\ b[1] <= 252 =>
             /\ ret = <<b[1], 0, 0, 0>>
             /\ bytes_slice = Drop(b, 1)
        /\ (b[1] = 254 /\ Len(b) >= 5) =>
             /\ ret = <<b[2] + 256 * b[3], b[4] + 256 * b[5], 0, 0>>
             /\ bytes_slice = Drop(b, 5)
        /\ (b[1] = 255 /\ Len(b) >= 9) =>
             /\ ret = <<b[2] + 256 * b[3], b[4] + 256 * b[5],
                        b[6] + 256 * b[7], b[8] + 256 * b[9]>>
             /\ bytes_slice = Drop(b, 9)

\* A 4-byte form whose value needs the high limb has been decoded.
C5_Witness ==
  /\ pc = "returned" /\ fn = "read_compact_size"
  /\ Len(transaction_bytes) >= 5 /\ transaction_bytes[1] = 254
  /\ transaction_bytes[5] > 0
  /\ ret[2] >= 256

\* C6: on {253, lo, hi} read_compact_size returns lo + 256*hi and consumes
\* exactly 3 bytes, also when the value is at most 252 (a non-minimal
\* encoding is accepted).
C6_TwoByteFormDecodes ==
  (/\ pc # "call"
   /\ fn = "read_compact_size"
   /\ Len(transaction_bytes) >= 3 /\ transaction_bytes[1] = 253) =>
    /\ pc = "returned"
    /\ ret = <<transaction_bytes[2] + 256 * transaction_bytes[3], 0, 0, 0>>
    /\ bytes_slice = Drop(transaction_bytes, 3)

\* A non-minimal encoding of a value below 253 has been decoded.
C6_Witness ==
  /\ pc = "returned" /\ fn = "read_compact_size"
  /\ Len(transaction_bytes) >= 3 /\ transaction_bytes[1] = 253
  /\ transaction_bytes[3] = 0 /\ transaction_bytes[2] = 1
  /\ ret = <<1, 0, 0, 0>>

\* C7: if a buffer B decodes successfully, then B followed by any bytes T
\* decodes successfully to the same version, inputs and outputs.
C7_TrailingBytesChangeNothing ==
  (fn = "main" /\ pc \in {"done", "panicked"}) =>
    \A k \in 0..Len(transaction_bytes) :
      LET B == decode(Take(transaction_bytes, k))
      IN  ~B.panic => (pc = "done" /\ transaction = B.transaction)

\* C8: the cursor is forward-only and in bounds: no step lowers the read
\* offset, the offset stays within 0..length of the buffer, and the slice the
\* readers take their bytes from is the part of the buffer after the offset.
C8_CursorForwardAndInBounds ==
  [][/\ Offset' >= Offset
     /\ Offset' \in 0..Len(transaction_bytes')
     /\ bytes_slice' = Drop(transaction_bytes', Offset')]_vars

\* The cursor has reached the end of a non-empty buffer with an input still
\* to be read.
C8_Witness ==
  /\ pc = "read_txid"
  /\ bytes_slice = <<>>
  /\ Offset = Len(transaction_bytes) /\ Offset > 0

\* C9: read_script returns the hex encoding of exactly the L bytes that
\* follow the length prefix and advances the cursor by the width of the
\* prefix plus L; the sequence number of an input is then read from the 4
\* bytes right after the script.
C9_ScriptIsLengthPrefixed ==
  [][/\ (pc \in {"read_script_sig", "read_script_pubkey"}
           /\ ScriptComplete(bytes_slice)) =>
          LET W == CompactWidth(bytes_slice)
              L == CompactValue(bytes_slice)
              body == hex_encode(SubSeq(bytes_slice, W + 1, W + L))
          IN  /\ pc = "read_script_sig" => (script_sig' = body /\ pc' = "read_sequence")
              /\ pc = "read_script_pubkey" =>
                   (script_pubkey' = body /\ pc' = "push_output")
              /\ bytes_slice' = Drop(bytes_slice, W + L)
     /\ (pc = "read_sequence" /\ Len(bytes_slice) >= 4) =>
          /\ sequence' = from_le_bytes(Take(bytes_slice, 4))
          /\ bytes_slice' = Drop(bytes_slice, 4)]_vars

\* A script of one byte behind a 3-byte length prefix has been read and the
\* sequence number that follows it is in the buffer.
C9_Witness ==
  /\ pc = "read_sequence"
  /\ script_sig = <<"a", "c">>
  /\ Len(bytes_slice) >= 4
  /\ SubSeq(transaction_bytes, Offset - 3, Offset) = <<253, 1, 0, 172>>

\* C10: the identifier of every input is the 32 wire bytes in reversed
\* order (byte i of the identifier is wire byte 31 - i), the reader consumes
\* exactly 32 bytes, and that identifier is the one the input carries.
C10_TxidIsReversedWireBytes ==
  [][/\ (pc = "read_txid" /\ Len(bytes_slice) >= 32) =>
          /\ Len(txid') = 64
          /\ \A k \in 0..31 :
               SubSeq(txid', 2 * k + 1, 2 * k + 2) = HexPair(bytes_slice[32 - k])
          /\ bytes_slice' = Drop(bytes_slice, 32)
     /\ pc = "push_input" =>
          /\ Len(inputs') = Len(inputs) + 1
          /\ inputs'[Len(inputs')].txid = txid]_vars

\* A transaction has been decoded whose first input's identifier came from 32
\* wire bytes that are not a palindrome.
C10_Witness ==
  /\ pc = "done"
  /\ Len(transaction.inputs) >= 1
  /\ Len(transaction_bytes) >= 37
  /\ transaction_bytes[6] # transaction_bytes[37]
  /\ SubSeq(transaction.inputs[1].txid, 1, 2) = HexPair(transaction_bytes[37])

====
